---- MODULE Spec2Model ----
(***************************************************************************)
(* Odin's Eye host-monitoring dashboard (app/main.py): every HTTP          *)
(* endpoint is a stateless handler that runs external commands             *)
(* (subprocess.run), parses their delimited text output and shapes a       *)
(* JSON body.  One request is in flight at a time in the model; requests   *)
(* share no state, so concurrent requests are independent copies.          *)
(*                                                                         *)
(* Text is modelled as sequences of one-character strings, so that         *)
(* str.strip, str.split, int() and float() are computed on characters.     *)
(* Floats produced by float() are kept in hundredths (fixed point); a      *)
(* percentage rounded by round(x, 1) is kept in tenths.                    *)
(***************************************************************************)
EXTENDS Integers, Sequences, FiniteSets, TLC

VARIABLES
  socket,      \* whether /var/run/docker.sock exists
  pc,          \* position of the request in its handler
  endpoint,    \* the route being served
  calls,       \* external invocations made by this request, in order
  resp,        \* the JSON body returned
  result,      \* CompletedProcess of the handler's data query
  metrics,     \* psutil readings held by get_system_info
  gpus,        \* gpu_detailed: records parsed before the process query
  processes,   \* gpu_processes: records appended so far
  lines,       \* gpu_processes: output lines still to be visited
  ps_result,   \* gpu_processes: CompletedProcess of the latest ps lookup
  debug_info   \* debug_docker: the bundle being filled in

vars ==
  <<socket, pc, endpoint, calls, resp, result, metrics, gpus, processes, lines,
    ps_result, debug_info>>

\* ------------------------------------------------------------------ bounds

\* Most lines an external tool prints in one run.
MaxLines == 2

\* ------------------------------------------------------- program constants

ProbeTimeout == 2
QueryTimeout == 5
\* subprocess.run called without timeout=: waits for the child for ever.
NoTimeout == 0

\* -------------------------------------------------------------------- text

IsSpace(c) == c \in {" ", "\n", "\t"}

\* The k-th smallest member of a set of integers.
Nth(S, k) == CHOOSE x \in S : Cardinality({y \in S : y < x}) = k - 1

\* str.strip(): what lies between the first and the last non-blank character.
Strip(s) ==
  LET inked == {i \in DOMAIN s : ~IsSpace(s[i])} IN
  IF inked = {} THEN <<>>
  ELSE SubSeq(s, Nth(inked, 1), Nth(inked, Cardinality(inked)))

\* Where sep occurs in s.  The separators used ("\n", "," and ", ") cannot
\* overlap themselves, so every occurrence is one str.split cuts at.
Cuts(s, sep) ==
  {i \in 1..(Len(s) - Len(sep) + 1) : SubSeq(s, i, i + Len(sep) - 1) = sep}

\* str.split(sep, maxsplit): at most maxsplit cuts, taken from the left;
\* maxsplit = -1 cuts everywhere.
SplitMax(s, sep, maxsplit) ==
  LET at == Cuts(s, sep)
      n == IF maxsplit < 0 \/ maxsplit > Cardinality(at)
           THEN Cardinality(at) ELSE maxsplit
  IN  [k \in 1..(n + 1) |->
         SubSeq(s,
                IF k = 1 THEN 1 ELSE Nth(at, k - 1) + Len(sep),
                IF k = n + 1 THEN Len(s) ELSE Nth(at, k) - 1)]

\* str.split(sep)
Split(s, sep) == SplitMax(s, sep, -1)

\* str.split() with no separator: runs of whitespace separate the words.
SplitWS(s) ==
  LET first == {i \in DOMAIN s : ~IsSpace(s[i]) /\ (i = 1 \/ IsSpace(s[i - 1]))}
      last == {i \in DOMAIN s : ~IsSpace(s[i]) /\ (i = Len(s) \/ IsSpace(s[i + 1]))}
  IN  [k \in 1..Cardinality(first) |-> SubSeq(s, Nth(first, k), Nth(last, k))]

RECURSIVE Join(_, _)
Join(ss, sep) ==
  IF ss = <<>> THEN <<>>
  ELSE IF Len(ss) = 1 THEN Head(ss)
       ELSE Head(ss) \o sep \o Join(Tail(ss), sep)

DigitChars == <<"0", "1", "2", "3", "4", "5", "6", "7", "8", "9">>

IsDigit(c) == \E i \in DOMAIN DigitChars : DigitChars[i] = c

DigitVal(c) == (CHOOSE i \in DOMAIN DigitChars : DigitChars[i] = c) - 1

AllDigits(s) == \A i \in DOMAIN s : IsDigit(s[i])

RECURSIVE DigitsValue(_, _)
DigitsValue(s, acc) ==
  IF s = <<>> THEN acc ELSE DigitsValue(Tail(s), acc * 10 + DigitVal(Head(s)))

Unsigned(t) == IF t # <<>> /\ Head(t) \in {"-", "+"} THEN Tail(t) ELSE t

Sign(t) == IF t # <<>> /\ Head(t) = "-" THEN -1 ELSE 1

\* int(s): surrounding whitespace and one sign are accepted; anything that
\* is not a decimal literal raises ValueError (ok = FALSE).
IntParse(s) ==
  LET t == Strip(s)
      d == Unsigned(t)
  IN  IF d # <<>> /\ AllDigits(d)
      THEN [ok |-> TRUE, val |-> Sign(t) * DigitsValue(d, 0)]
      ELSE [ok |-> FALSE, val |-> 0]

\* The first two fractional digits of a digit string, as hundredths.
Hundredths(f) ==
  IF f = <<>> THEN 0
  ELSE IF Len(f) = 1 THEN 10 * DigitVal(f[1])
       ELSE 10 * DigitVal(f[1]) + DigitVal(f[2])

\* float(s) for plain decimal notation, in hundredths; anything else raises
\* ValueError (ok = FALSE).
FloatParse(s) ==
  LET t == Strip(s)
      d == Unsigned(t)
      p == Split(d, <<".">>)
      whole == p[1]
      frac == IF Len(p) = 2 THEN p[2] ELSE <<>>
  IN  IF /\ Len(p) <= 2
         /\ AllDigits(whole) /\ AllDigits(frac)
         /\ whole \o frac # <<>>
      THEN [ok |-> TRUE, val |-> Sign(t) * (100 * DigitsValue(whole, 0) + Hundredths(frac))]
      ELSE [ok |-> FALSE, val |-> 0]

\* -------------------------------------------------- sample tool output


DockerLineWeb ==
  <<"w","e","b",",","U","p"," ","2"," ","h","o","u","r","s",",","0",".","0",".","0",".","0",":","8","0","8","0","-",">","8","0","8","0","/","t","c","p">>

DockerLineNoPorts ==
  <<"d","b",",","U","p",",">>

DockerLineTwoPorts ==
  <<"a","p","i",",","U","p",",","8","0","/","t","c","p",","," ","4","4","3","/","t","c","p">>

DockerLineTwoFields ==
  <<"b","a","d",",","U","p">>

DockerLineOneField ==
  <<"x">>

DockerLineBlank ==
  <<" ">>
GpuLineT4 ==
  <<"0",","," ","T","e","s","l","a"," ","T","4",","," ","1","6","3","8","4",","," ","2","0","4","8",","," ","1","4","3","3","6",","," ","4","5",","," ","1","0",","," ","2","5",".","5",","," ","7","0",".","0",","," ","1","2","0","0",","," ","8","0","0">>

GpuLineTie ==
  <<"1",","," ","T","4",","," ","8","0",","," ","2","3",","," ","5","7",","," ","4","0",","," ","5",","," ","N","/","A",","," ","N","/","A",","," ","N","/","A",","," ","N","/","A">>

GpuLineThird ==
  <<"2",","," ","T","4",","," ","3",","," ","2",","," ","1",","," ","4","0",","," ","5",","," ","9",".","5",","," ","7","0",","," ","3","0","0",","," ","4","0","5">>

GpuLineTempNA ==
  <<"3",","," ","T","4",","," ","8",","," ","2",","," ","6",","," ","N","/","A",","," ","0",","," ","9",".","5",","," ","7","0",","," ","3","0","0",","," ","4","0","5">>

GpuLineMemNA ==
  <<"4",","," ","T","4",","," ","N","/","A",","," ","N","/","A",","," ","N","/","A",","," ","4","0",","," ","0",","," ","9",".","5",","," ","7","0",","," ","3","0","0",","," ","4","0","5">>

GpuLineZeroTotal ==
  <<"5",","," ","T","4",","," ","0",","," ","0",","," ","0",","," ","4","0",","," ","0",","," ","9",".","5",","," ","7","0",","," ","3","0","0",","," ","4","0","5">>

GpuLineShort ==
  <<"6",","," ","T","4",","," ","8",","," ","2">>

RtLineOk ==
  <<"0",","," ","1","0",","," ","2","0","4","8",","," ","1","6","3","8","4",","," ","4","5",","," ","2","5",".","5">>

RtLinePowerNA ==
  <<"1",","," ","5",","," ","2",","," ","3",","," ","4","0",","," ","N","/","A">>

RtLineTempNA ==
  <<"2",","," ","5",","," ","2",","," ","8",","," ","N","/","A",","," ","9",".","5">>

RtLineShort ==
  <<"3",","," ","5",","," ","2">>

LiteLineOk ==
  <<"T","e","s","l","a"," ","T","4",","," ","1","6","3","8","4",","," ","2","0","4","8",","," ","4","5",","," ","1","0">>

LiteLineNA ==
  <<"T","4",","," ","N","/","A",","," ","N","/","A",","," ","N","/","A",","," ","N","/","A">>

LiteLineShort ==
  <<"T","4",","," ","8">>

AppLineOk ==
  <<"G","P","U","-","a",","," ","1","0","0",","," ","p","y","t","h","o","n",","," ","5","1","2">>

AppLineNA ==
  <<"G","P","U","-","a",","," ","1","0","1",","," ","p","y","t","h","o","n",","," ","N","/","A">>

AppLineShort ==
  <<"G","P","U","-","a",","," ","1","0","2">>

ProcLineOk ==
  <<"G","P","U","-","a",","," ","1","0","0",","," ","p","y","t","h","o","n",","," ","5","1","2",","," ","C">>

ProcLineMemNA ==
  <<"G","P","U","-","a",","," ","1","0","1",","," ","p","y","t","h","o","n",","," ","N","/","A",","," ","C">>

ProcLinePidNA ==
  <<"G","P","U","-","a",","," ","N","/","A",","," ","N","/","A",","," ","N","/","A",","," ","C">>

ProcLineShort ==
  <<"G","P","U","-","a",","," ","1","0","2",","," ","p","y","t","h","o","n">>

PsOutFull ==
  <<"r","o","o","t"," ","0",".","5"," ","1",".","2"," ","0","0",":","0","1"," ","p","y","t","h","o","n"," ","t","r","a","i","n",".","p","y","\n">>

PsOutDash ==
  <<"r","o","o","t"," ","-"," ","-"," ","0","0",":","0","1","\n">>

PsOutShort ==
  <<"r","o","o","t"," ","0",".","5","\n">>

PsOutBadFloat ==
  <<"r","o","o","t"," ","x"," ","1",".","2"," ","0","0",":","0","1"," ","s","h","\n">>

SummaryOut ==
  <<"T","e","s","l","a"," ","T","4",","," ","1","6","3","8","4",","," ","2","0","4","8","\n">>

GroupsOut ==
  <<"a","p","p"," ","d","o","c","k","e","r","\n">>

DockerPsTable ==
  <<"N","A","M","E","S","\n","w","e","b","\n">>

AppLineBracket ==
  <<"G","P","U","-","a",","," ","1","0","3",","," ","p","y","t","h","o","n",","," ","[","N","/","A","]">>

ProcLineBracket ==
  <<"G","P","U","-","a",","," ","1","0","4",","," ","s","h",","," ","[","N","/","A","]",","," ","C">>

NA ==
  <<"N","/","A">>

CommaSpace ==
  <<","," ">>

\* ------------------------------------------------------------- environment

\* Lines `docker ps --format {{.Names}},{{.Status}},{{.Ports}}` can print.
\* Docker's names and ports carry no leading or trailing blanks.
DockerLines ==
  {DockerLineWeb, DockerLineNoPorts, DockerLineTwoPorts, DockerLineTwoFields,
   DockerLineOneField, DockerLineBlank, <<>>}

\* Every sequence of at most MaxLines lines drawn from S.
LinesUpTo(S) == UNION {[1..n -> S] : n \in 0..MaxLines}

\* What a tool that prints the lines ls writes to its standard output.
Stdout(ls) == IF ls = <<>> THEN <<>> ELSE Join(ls, <<"\n">>) \o <<"\n">>

Outputs(S) == {Stdout(ls) : ls \in LinesUpTo(S)}

\* How one external invocation can end: exit 0, exit non-zero, never exit,
\* or no such binary.
Kinds == {"ok", "nonzero", "hang", "missing"}

\* The outcomes of a tool whose successful output is one of outs.
Outcomes(outs) ==
  {[kind |-> "ok", stdout |-> o] : o \in outs}
    \cup {[kind |-> k, stdout |-> <<>>] : k \in Kinds \ {"ok"}}

\* --------------------------------------------------------- subprocess.run

Invoke(cmd, timeout, kind) == [cmd |-> cmd, timeout |-> timeout, outcome |-> kind]

\* Without timeout= the caller waits on a child that never exits.
Blocks(call) == call.outcome = "hang" /\ call.timeout = NoTimeout

\* The exception subprocess.run raises for the call, "none" when it returns.
Raised(call) ==
  IF call.outcome = "missing" THEN "FileNotFoundError"
  ELSE IF call.outcome = "hang" /\ call.timeout # NoTimeout THEN "TimeoutExpired"
       ELSE "none"

\* The exit status of the probe ignored.
ProbeFailedIgnored(k) == FALSE

\* result.returncode != 0 after a `which` probe
ProbeFailed(k) == k # "ok"

Completed(o) ==
  [returncode |-> IF o.kind = "ok" THEN 0 ELSE 1, stdout |-> o.stdout]

NoResult == [returncode |-> 0, stdout |-> <<>>]

\* -------------------------------------------------------------- exceptions

\* The tuple of caught exceptions without subprocess.TimeoutExpired.
SubprocessErrorsNoTimeout == {"FileNotFoundError", "CalledProcessError"}

\* except (subprocess.TimeoutExpired, FileNotFoundError, subprocess.CalledProcessError)
SubprocessErrors == {"TimeoutExpired", "FileNotFoundError", "CalledProcessError"}

Exceptions == SubprocessErrors \cup {"ValueError", "ZeroDivisionError", "Error"}

\* Only the subprocess failures caught at the endpoint boundary.
CaughtNarrowly(e) == e \in SubprocessErrors

\* except Exception
CaughtByException(e) == e \in Exceptions

\* ---------------------------------------------------------------- request

Endpoints ==
  {"/api/status", "/api/services", "/api/gpu", "/api/gpu/detailed",
   "/api/gpu/realtime", "/api/gpu/processes", "/api/debug/docker"}

Entry(e) ==
  CASE e = "/api/status" -> "sys_psutil"
    [] e = "/api/services" -> "svc_socket"
    [] e = "/api/gpu" -> "gpu_which"
    [] e = "/api/gpu/detailed" -> "det_query"
    [] e = "/api/gpu/realtime" -> "rt_query"
    [] e = "/api/gpu/processes" -> "proc_which"
    [] e = "/api/debug/docker" -> "dbg_socket"

NoMetrics == [memory_total |-> 0, memory_used |-> 0, memory_percent |-> 0,
              disk_total |-> 0, disk_used |-> 0]

NoDebugInfo ==
  [docker_socket_exists |-> FALSE, docker_socket_permissions |-> "",
   docker_command_available |-> FALSE, docker_group_exists |-> FALSE,
   user_groups |-> <<>>, error_details |-> <<>>]

Locals == <<result, metrics, gpus, processes, lines, ps_result, debug_info>>

Init ==
  /\ pc = "idle"
  /\ endpoint = "none"
  /\ socket \in BOOLEAN
  /\ calls = <<>>
  /\ resp = <<>>
  /\ result = NoResult
  /\ metrics = NoMetrics
  /\ gpus = <<>>
  /\ processes = <<>>
  /\ lines = <<>>
  /\ ps_result = NoResult
  /\ debug_info = NoDebugInfo

\* The serving layer dispatches a GET to its handler.
Request(e) ==
  /\ pc = "idle"
  /\ pc' = Entry(e)
  /\ endpoint' = e
  /\ UNCHANGED <<socket, calls, resp, Locals>>

\* The handler returns body r (HTTP 200).
Return(r) ==
  /\ pc' = "done"
  /\ resp' = r

\* An exception leaves the handler: the serving layer answers 500.
Escape(e) ==
  /\ pc' = "raised"
  /\ resp' = [exception |-> e]

\* The response is sent and the request's locals are dropped.
Respond ==
  /\ pc \in {"done", "raised"}
  /\ pc' = "idle"
  /\ endpoint' = "none"
  /\ calls' = <<>>
  /\ resp' = <<>>
  /\ result' = NoResult
  /\ metrics' = NoMetrics
  /\ gpus' = <<>>
  /\ processes' = <<>>
  /\ lines' = <<>>
  /\ ps_result' = NoResult
  /\ debug_info' = NoDebugInfo
  /\ UNCHANGED socket

\* The docker daemon is started or stopped between requests.
SocketChange ==
  /\ pc = "idle"
  /\ socket' = ~socket
  /\ UNCHANGED <<pc, endpoint, calls, resp, Locals>>

\* ---------------------------------------------------------- /api/services

\* line.split(",") without the maxsplit argument.
ContainerOfUnlimited(line) ==
  LET parts == Split(line, <<",">>) IN
  IF Strip(line) # <<>> /\ Len(parts) >= 3
  THEN <<[name |-> parts[1], status |-> parts[2], ports |-> parts[3]]>>
  ELSE <<>>

\* The body of the loop over the lines of `docker ps`: the records one line adds.
ContainerOf(line) ==
  LET parts == SplitMax(line, <<",">>, 2) IN
  IF Strip(line) # <<>> /\ Len(parts) >= 3
  THEN <<[name |-> parts[1], status |-> parts[2],
          ports |-> IF Len(parts) > 2 THEN parts[3] ELSE <<>>]>>
  ELSE <<>>

RECURSIVE ContainersOf(_)
ContainersOf(ls) ==
  IF ls = <<>> THEN <<>> ELSE ContainerOf(Head(ls)) \o ContainersOf(Tail(ls))

ParseContainers(stdout) == ContainersOf(Split(Strip(stdout), <<"\n">>))

ServicesBody(docker_status, containers, error_details) ==
  [docker |-> docker_status, containers |-> containers,
   error_details |-> error_details, timestamp |-> "now"]

\* The handlers of the inner try with the error_details.append calls left out.
ServicesExceptSilent(e) ==
  IF e = "FileNotFoundError" THEN Return(ServicesBody("not available", <<>>, <<>>))
  ELSE IF e = "TimeoutExpired" THEN Return(ServicesBody("timeout", <<>>, <<>>))
       ELSE IF CaughtByException(e) THEN Return(ServicesBody("error", <<>>, <<>>))
            ELSE Escape(e)

\* The handlers of the inner try of services().
ServicesExcept(e) ==
  IF e = "FileNotFoundError"
  THEN Return(ServicesBody("not available", <<>>, <<"Docker command not found">>))
  ELSE IF e = "TimeoutExpired"
       THEN Return(ServicesBody("timeout", <<>>, <<"Docker command timed out">>))
       ELSE IF CaughtByException(e)
            THEN Return(ServicesBody("error", <<>>, <<"Exception">>))
            ELSE Escape(e)

\* The existence test inverted.
SocketMissingInverted == socket

\* not os.path.exists("/var/run/docker.sock")
SocketMissing == ~socket

SvcSocket ==
  /\ pc = "svc_socket"
  /\ IF SocketMissing
     THEN Return(ServicesBody("socket not found", <<>>,
                              <<"Docker socket /var/run/docker.sock not found">>))
     ELSE pc' = "svc_which" /\ UNCHANGED resp
  /\ UNCHANGED <<endpoint, socket, calls, Locals>>

SvcWhich ==
  /\ pc = "svc_which"
  /\ \E k \in Kinds :
       LET call == Invoke("which docker", NoTimeout, k) IN
       /\ calls' = Append(calls, call)
       /\ IF Blocks(call) THEN pc' = "blocked" /\ UNCHANGED resp
          ELSE IF Raised(call) # "none" THEN ServicesExcept(Raised(call))
          ELSE IF ProbeFailed(k)
               THEN Return(ServicesBody("docker command not found", <<>>,
                                        <<"Docker command not found in PATH">>))
               ELSE pc' = "svc_ps" /\ UNCHANGED resp
  /\ UNCHANGED <<endpoint, socket, Locals>>

SvcPs ==
  /\ pc = "svc_ps"
  /\ \E o \in Outcomes(Outputs(DockerLines)) :
       LET call == Invoke("docker ps", QueryTimeout, o.kind) IN
       /\ calls' = Append(calls, call)
       /\ IF Raised(call) # "none"
          THEN ServicesExcept(Raised(call)) /\ UNCHANGED result
          ELSE /\ result' = Completed(o)
               /\ IF o.kind = "ok"
                  THEN Return(ServicesBody("running", ParseContainers(o.stdout), <<>>))
                  ELSE Return(ServicesBody("not running", <<>>, <<"Docker ps failed">>))
  /\ UNCHANGED <<endpoint, socket, ps_result, metrics, gpus, processes, lines,
                 debug_info>>

\* ------------------------------------------------------------ /api/status

\* A percentage of total, in tenths of a percent.
PercentOf(part, total) == (part * 1000) \div total

\* psutil.virtual_memory(): percent is psutil's own figure, derived from the
\* memory that is not available, which is not the memory in use.
MemoryReadings ==
  {[total |-> t, used |-> u, percent |-> PercentOf(t - a, t)] :
     t \in {4, 8}, u \in {1, 2}, a \in {2, 4}}

\* psutil.disk_usage("/")
DiskReadings == {[total |-> t, used |-> u] : t \in {0, 4, 8}, u \in {0, 1}}

SummaryOutputs == {<<>>, SummaryOut}

\* except Exception of get_system_info()
StatusExcept(e) == IF CaughtByException(e) THEN Return([error |-> e]) ELSE Escape(e)

\* The psutil reads of get_system_info(); psutil may raise psutil.Error.
SysPsutil ==
  /\ pc = "sys_psutil"
  /\ \/ \E m \in MemoryReadings, d \in DiskReadings :
          /\ metrics' = [memory_total |-> m.total, memory_used |-> m.used,
                         memory_percent |-> m.percent,
                         disk_total |-> d.total, disk_used |-> d.used]
          /\ pc' = "sys_nvidia"
          /\ UNCHANGED resp
     \/ StatusExcept("Error") /\ UNCHANGED metrics
  /\ UNCHANGED <<endpoint, socket, ps_result, calls, result, gpus, processes,
                 lines, debug_info>>

\* The record get_system_info() returns; the division raises on an empty disk.
HostMetrics(gpu_info) ==
  [cpu_percent |-> 0, cpu_count |-> 1,
   memory_total |-> metrics.memory_total,
   memory_used |-> metrics.memory_used,
   memory_percent |-> metrics.memory_percent,
   disk_total |-> metrics.disk_total,
   disk_used |-> metrics.disk_used,
   disk_percent |-> PercentOf(metrics.disk_used, metrics.disk_total),
   gpu_info |-> gpu_info,
   timestamp |-> "now"]

SysReturn(gpu_info) ==
  IF metrics.disk_total = 0
  THEN StatusExcept("ZeroDivisionError")
  ELSE Return(HostMetrics(gpu_info))

\* The GPU summary query of get_system_info() and its return.
SysNvidia ==
  /\ pc = "sys_nvidia"
  /\ \E o \in Outcomes(SummaryOutputs) :
       LET call == Invoke("nvidia-smi --query-gpu", QueryTimeout, o.kind) IN
       /\ calls' = Append(calls, call)
       /\ IF Raised(call) # "none"
          THEN /\ IF Raised(call) \in SubprocessErrors
                  THEN SysReturn("Not available")
                  ELSE StatusExcept(Raised(call))
               /\ UNCHANGED result
          ELSE /\ result' = Completed(o)
               /\ SysReturn(IF o.kind = "ok" THEN Strip(o.stdout) ELSE "Not available")
  /\ UNCHANGED <<endpoint, socket, ps_result, metrics, gpus, processes, lines,
                 debug_info>>

\* --------------------------------------------------------------- /api/gpu

LiteLines == {LiteLineOk, LiteLineNA, LiteLineShort, <<>>}

RECURSIVE LiteGpusOf(_)
LiteGpusOf(ls) ==
  IF ls = <<>> THEN <<>>
  ELSE LET line == Head(ls)
           parts == Split(line, CommaSpace)
       IN  IF Strip(line) # <<>> /\ Len(parts) >= 5
           THEN <<[name |-> parts[1], memory_total |-> parts[2],
                   memory_used |-> parts[3], temperature |-> parts[4],
                   utilization |-> parts[5]]>> \o LiteGpusOf(Tail(ls))
           ELSE LiteGpusOf(Tail(ls))

\* except Exception of gpu_info()
GpuInfoExcept(e) ==
  IF CaughtByException(e)
  THEN Return([gpus |-> <<>>, error |-> e, timestamp |-> "now"])
  ELSE Escape(e)

GpuWhich ==
  /\ pc = "gpu_which"
  /\ \E k \in Kinds :
       LET call == Invoke("which nvidia-smi", ProbeTimeout, k) IN
       /\ calls' = Append(calls, call)
       /\ IF Raised(call) # "none" THEN GpuInfoExcept(Raised(call))
          ELSE IF ProbeFailed(k)
               THEN Return([gpus |-> <<>>,
                            message |-> "nvidia-smi not available in container",
                            timestamp |-> "now"])
               ELSE pc' = "gpu_query" /\ UNCHANGED resp
  /\ UNCHANGED <<endpoint, socket, Locals>>

GpuQuery ==
  /\ pc = "gpu_query"
  /\ \E o \in Outcomes(Outputs(LiteLines)) :
       LET call == Invoke("nvidia-smi --query-gpu", QueryTimeout, o.kind) IN
       /\ calls' = Append(calls, call)
       /\ IF Raised(call) # "none"
          THEN GpuInfoExcept(Raised(call)) /\ UNCHANGED result
          ELSE /\ result' = Completed(o)
               /\ IF o.kind = "ok"
                  THEN Return([gpus |-> LiteGpusOf(Split(Strip(o.stdout), <<"\n">>)),
                               timestamp |-> "now"])
                  ELSE Return([gpus |-> <<>>, message |-> "nvidia-smi command failed",
                               timestamp |-> "now"])
  /\ UNCHANGED <<endpoint, socket, ps_result, metrics, gpus, processes, lines,
                 debug_info>>

\* ------------------------------------------------------ /api/gpu/detailed

GpuLines ==
  {GpuLineT4, GpuLineTie, GpuLineThird, GpuLineTempNA, GpuLineMemNA,
   GpuLineZeroTotal, GpuLineShort, <<>>}

AppLines == {AppLineOk, AppLineNA, AppLineBracket, AppLineShort}

\* Truncation to one decimal instead of rounding.
RoundedPercentTruncated(used, total) == {(used * 1000) \div total}

\* round(used / total * 100, 1), in tenths.  The quotient is a binary float:
\* a value exactly half way between two tenths lands on either of them.
RoundedPercent(used, total) ==
  LET q == (used * 1000) \div total
      r == (used * 1000) % total
  IN  IF 2 * r < total THEN {q}
      ELSE IF 2 * r > total THEN {q + 1}
           ELSE {q, q + 1}

Skip == {[kind |-> "skip"]}

Raise(e) == {[kind |-> "raise", exc |-> e]}

\* int(x) if x != "N/A" else 0, and float(x) if x != "N/A" else 0
IntOrZero(x) == IF x # NA THEN IntParse(x) ELSE [ok |-> TRUE, val |-> 0]

FloatOrZero(x) == IF x # NA THEN FloatParse(x) ELSE [ok |-> TRUE, val |-> 0]

\* One iteration of the loop over the lines of the detailed GPU query.
DetailedLine(line) ==
  LET parts == Split(line, CommaSpace) IN
  IF Strip(line) = <<>> \/ Len(parts) < 11 THEN Skip
  ELSE LET total == IntParse(parts[3])
           used == IntParse(parts[4])
           free == IntParse(parts[5])
           temperature == IntParse(parts[6])
           utilization == IntParse(parts[7])
           power_draw == FloatOrZero(parts[8])
           power_limit == FloatOrZero(parts[9])
           clock_graphics == IntOrZero(parts[10])
           clock_memory == IntOrZero(parts[11])
       IN  IF ~(total.ok /\ used.ok /\ free.ok) THEN Raise("ValueError")
           ELSE IF total.val = 0 THEN Raise("ZeroDivisionError")
           ELSE IF ~(/\ temperature.ok /\ utilization.ok
                     /\ power_draw.ok /\ power_limit.ok
                     /\ clock_graphics.ok /\ clock_memory.ok)
                THEN Raise("ValueError")
                ELSE {[kind |-> "item",
                       item |-> [index |-> parts[1], name |-> parts[2],
                                 memory_total |-> total.val,
                                 memory_used |-> used.val,
                                 memory_free |-> free.val,
                                 memory_percent |-> p,
                                 temperature |-> temperature.val,
                                 utilization |-> utilization.val,
                                 power_draw |-> power_draw.val,
                                 power_limit |-> power_limit.val,
                                 clock_graphics |-> clock_graphics.val,
                                 clock_memory |-> clock_memory.val]] :
                       p \in RoundedPercent(used.val, total.val)}

\* One iteration of the loop over the lines of the compute-apps query.
AppLine(line) ==
  LET parts == Split(line, CommaSpace) IN
  IF Strip(line) = <<>> \/ Len(parts) < 4 THEN Skip
  ELSE LET memory_used == IntOrZero(parts[4]) IN
       IF ~memory_used.ok THEN Raise("ValueError")
       ELSE {[kind |-> "item",
              item |-> [gpu_uuid |-> parts[1], pid |-> parts[2],
                        process_name |-> parts[3],
                        memory_used |-> memory_used.val]]}

\* A for loop that appends one record per accepted line, given what each
\* iteration can do: the lists the loop can build, or the exception ending it.
RECURSIVE Loop(_, _)
Loop(steps, acc) ==
  IF steps = <<>> THEN {[exc |-> "none", items |-> acc]}
  ELSE UNION {IF o.kind = "raise" THEN {[exc |-> o.exc, items |-> <<>>]}
              ELSE Loop(Tail(steps),
                        IF o.kind = "item" THEN Append(acc, o.item) ELSE acc) :
              o \in Head(steps)}

ParseDetailed(ls) == Loop([i \in DOMAIN ls |-> DetailedLine(ls[i])], <<>>)

ParseApps(ls) == Loop([i \in DOMAIN ls |-> AppLine(ls[i])], <<>>)

\* result.stdout.strip().split("\n")
OutputLines(stdout) == Split(Strip(stdout), <<"\n">>)

\* except Exception of gpu_detailed()
DetailedExcept(e) == IF CaughtByException(e) THEN Return([error |-> e]) ELSE Escape(e)

DetQuery ==
  /\ pc = "det_query"
  /\ \E o \in Outcomes(Outputs(GpuLines)) :
       LET call == Invoke("nvidia-smi --query-gpu", QueryTimeout, o.kind) IN
       /\ calls' = Append(calls, call)
       /\ IF Raised(call) # "none"
          THEN DetailedExcept(Raised(call)) /\ UNCHANGED <<result, gpus>>
          ELSE /\ result' = Completed(o)
               /\ IF o.kind # "ok"
                  THEN Return([error |-> "nvidia-smi not available"]) /\ UNCHANGED gpus
                  ELSE \E p \in ParseDetailed(OutputLines(o.stdout)) :
                         IF p.exc # "none"
                         THEN DetailedExcept(p.exc) /\ UNCHANGED gpus
                         ELSE gpus' = p.items /\ pc' = "det_procs" /\ UNCHANGED resp
  /\ UNCHANGED <<endpoint, socket, ps_result, metrics, processes, lines, debug_info>>

DetailedBody(procs) == [gpus |-> gpus, processes |-> procs, timestamp |-> "now"]

DetProcs ==
  /\ pc = "det_procs"
  /\ \E o \in Outcomes(Outputs(AppLines)) :
       LET call == Invoke("nvidia-smi --query-compute-apps", QueryTimeout, o.kind) IN
       /\ calls' = Append(calls, call)
       /\ IF Raised(call) # "none"
          THEN IF Raised(call) \in SubprocessErrors
               THEN Return(DetailedBody(<<>>))
               ELSE DetailedExcept(Raised(call))
          ELSE IF o.kind # "ok" THEN Return(DetailedBody(<<>>))
               ELSE \E p \in ParseApps(OutputLines(o.stdout)) :
                      IF p.exc # "none"
                      THEN DetailedExcept(p.exc)
                      ELSE Return(DetailedBody(p.items))
  /\ UNCHANGED <<endpoint, socket, ps_result, result, metrics, gpus, processes,
                 lines, debug_info>>

\* ------------------------------------------------------ /api/gpu/realtime

RtLines == {RtLineOk, RtLinePowerNA, RtLineTempNA, RtLineShort, <<>>}

\* One iteration of the loop over the lines of the realtime query.
RealtimeLine(line) ==
  LET parts == Split(line, CommaSpace) IN
  IF Strip(line) = <<>> \/ Len(parts) < 6 THEN Skip
  ELSE LET index == IntParse(parts[1])
           utilization == IntParse(parts[2])
           used == IntParse(parts[3])
           total == IntParse(parts[4])
           temperature == IntParse(parts[5])
           power_draw == FloatOrZero(parts[6])
       IN  IF ~(index.ok /\ utilization.ok /\ used.ok /\ total.ok)
           THEN Raise("ValueError")
           ELSE IF total.val = 0 THEN Raise("ZeroDivisionError")
           ELSE IF ~(temperature.ok /\ power_draw.ok) THEN Raise("ValueError")
                ELSE {[kind |-> "item",
                       item |-> [index |-> index.val,
                                 utilization |-> utilization.val,
                                 memory_used |-> used.val,
                                 memory_total |-> total.val,
                                 memory_percent |-> p,
                                 temperature |-> temperature.val,
                                 power_draw |-> power_draw.val,
                                 timestamp |-> "now"]] :
                       p \in RoundedPercent(used.val, total.val)}

ParseRealtime(ls) == Loop([i \in DOMAIN ls |-> RealtimeLine(ls[i])], <<>>)

\* except Exception of gpu_realtime()
RealtimeExcept(e) == IF CaughtByException(e) THEN Return([error |-> e]) ELSE Escape(e)

RtQuery ==
  /\ pc = "rt_query"
  /\ \E o \in Outcomes(Outputs(RtLines)) :
       LET call == Invoke("nvidia-smi --query-gpu", QueryTimeout, o.kind) IN
       /\ calls' = Append(calls, call)
       /\ IF Raised(call) # "none"
          THEN RealtimeExcept(Raised(call)) /\ UNCHANGED result
          ELSE /\ result' = Completed(o)
               /\ IF o.kind # "ok"
                  THEN Return([error |-> "nvidia-smi not available"])
                  ELSE \E p \in ParseRealtime(OutputLines(o.stdout)) :
                         IF p.exc # "none"
                         THEN RealtimeExcept(p.exc)
                         ELSE Return([gpus |-> p.items, timestamp |-> "now"])
  /\ UNCHANGED <<endpoint, socket, ps_result, metrics, gpus, processes, lines,
                 debug_info>>

\* ----------------------------------------------------- /api/gpu/processes

ProcLines == {ProcLineOk, ProcLineMemNA, ProcLinePidNA, ProcLineBracket, ProcLineShort, <<>>}

PsOutputs == {PsOutFull, PsOutDash, PsOutShort, PsOutBadFloat, <<>>}

\* except Exception of gpu_processes()
ProcessesExcept(e) ==
  IF CaughtByException(e)
  THEN Return([processes |-> <<>>, error |-> e, timestamp |-> "now"])
  ELSE Escape(e)

ProcWhich ==
  /\ pc = "proc_which"
  /\ \E k \in Kinds :
       LET call == Invoke("which nvidia-smi", ProbeTimeout, k) IN
       /\ calls' = Append(calls, call)
       /\ IF Raised(call) # "none" THEN ProcessesExcept(Raised(call))
          ELSE IF ProbeFailed(k)
               THEN Return([processes |-> <<>>,
                            message |-> "nvidia-smi not available in container",
                            timestamp |-> "now"])
               ELSE pc' = "proc_query" /\ UNCHANGED resp
  /\ UNCHANGED <<endpoint, socket, Locals>>

ProcQuery ==
  /\ pc = "proc_query"
  /\ \E o \in Outcomes(Outputs(ProcLines)) :
       LET call == Invoke("nvidia-smi --query-compute-apps", QueryTimeout, o.kind) IN
       /\ calls' = Append(calls, call)
       /\ IF Raised(call) # "none"
          THEN ProcessesExcept(Raised(call)) /\ UNCHANGED <<result, lines>>
          ELSE /\ result' = Completed(o)
               /\ IF o.kind # "ok"
                  THEN /\ Return([processes |-> <<>>,
                                  message |-> "No GPU processes found or nvidia-smi error",
                                  timestamp |-> "now"])
                       /\ UNCHANGED lines
                  ELSE /\ lines' = OutputLines(o.stdout)
                       /\ pc' = "proc_loop"
                       /\ UNCHANGED resp
  /\ UNCHANGED <<endpoint, socket, ps_result, metrics, gpus, processes, debug_info>>

\* The fields ps adds to a record: none, the enrichment, or ValueError.
PsFields(o) ==
  LET ps_parts == SplitWS(Strip(o.stdout))
      cpu == IF ps_parts[2] # <<"-">> THEN FloatParse(ps_parts[2])
             ELSE [ok |-> TRUE, val |-> 0]
      mem == IF ps_parts[3] # <<"-">> THEN FloatParse(ps_parts[3])
             ELSE [ok |-> TRUE, val |-> 0]
  IN  IF o.kind # "ok" \/ Strip(o.stdout) = <<>> \/ Len(ps_parts) < 4
      THEN [exc |-> "none", fields |-> <<>>]
      ELSE IF ~(cpu.ok /\ mem.ok) THEN [exc |-> "ValueError", fields |-> <<>>]
           ELSE [exc |-> "none",
                 fields |-> [user |-> ps_parts[1], cpu_percent |-> cpu.val,
                             memory_percent |-> mem.val, runtime |-> ps_parts[4],
                             command |-> IF Len(ps_parts) > 4
                                         THEN Join(SubSeq(ps_parts, 5, Len(ps_parts)), <<" ">>)
                                         ELSE <<>>]]

ProcessInfo(parts, memory_used) ==
  [gpu_uuid |-> parts[1], pid |-> parts[2], process_name |-> parts[3],
   memory_used |-> memory_used,
   process_type |-> IF Len(parts) > 4 THEN parts[5] ELSE <<"U","n","k","n","o","w","n">>]

\* One iteration of the loop over the compute-app lines, with its ps lookup.
ProcLine ==
  /\ pc = "proc_loop"
  /\ lines # <<>>
  /\ lines' = Tail(lines)
  /\ LET line == Head(lines)
         parts == Split(line, CommaSpace)
         memory_used == IntOrZero(parts[4])
     IN  IF Strip(line) = <<>> \/ Len(parts) < 5
         THEN UNCHANGED <<pc, calls, resp, processes, ps_result>>
         ELSE IF ~memory_used.ok
              THEN /\ ProcessesExcept("ValueError")
                   /\ UNCHANGED <<calls, processes, ps_result>>
              ELSE IF parts[2] = NA
                   THEN /\ processes' = Append(processes, ProcessInfo(parts, memory_used.val))
                        /\ UNCHANGED <<pc, calls, resp, ps_result>>
                   ELSE \E o \in Outcomes(PsOutputs) :
                          LET call == Invoke("ps -p", ProbeTimeout, o.kind)
                              ps == PsFields(o)
                          IN  /\ calls' = Append(calls, call)
                              /\ IF Raised(call) # "none"
                                 THEN /\ UNCHANGED ps_result
                                      /\ IF Raised(call) \in SubprocessErrors
                                         THEN /\ processes' = Append(processes,
                                                     ProcessInfo(parts, memory_used.val))
                                              /\ UNCHANGED <<pc, resp>>
                                         ELSE /\ ProcessesExcept(Raised(call))
                                              /\ UNCHANGED processes
                                 ELSE /\ ps_result' = Completed(o)
                                      /\ IF ps.exc # "none"
                                         THEN ProcessesExcept(ps.exc) /\ UNCHANGED processes
                                         ELSE /\ processes' = Append(processes,
                                                     ps.fields @@ ProcessInfo(parts, memory_used.val))
                                              /\ UNCHANGED <<pc, resp>>
  /\ UNCHANGED <<endpoint, socket, result, metrics, gpus, debug_info>>

\* The loop is over: the handler returns what it collected.
ProcReturn ==
  /\ pc = "proc_loop"
  /\ lines = <<>>
  /\ Return([processes |-> processes, timestamp |-> "now"])
  /\ UNCHANGED <<endpoint, socket, calls, Locals>>

\* ------------------------------------------------------ /api/debug/docker

\* except Exception of debug_docker(), then `return debug_info`
DebugExcept(e) ==
  IF CaughtByException(e)
  THEN /\ debug_info' = [debug_info EXCEPT !.error_details = Append(@, e)]
       /\ Return(debug_info')
  ELSE Escape(e) /\ UNCHANGED debug_info

DbgSocket ==
  /\ pc = "dbg_socket"
  /\ debug_info' = [debug_info EXCEPT
                      !.docker_socket_exists = socket,
                      !.docker_socket_permissions = IF socket THEN "660" ELSE ""]
  /\ pc' = "dbg_which"
  /\ UNCHANGED <<endpoint, socket, ps_result, calls, resp, result, metrics,
                 gpus, processes, lines>>

\* One of the three probes of debug_docker() that only record an exit status.
DbgProbe(at, cmd, field, then) ==
  /\ pc = at
  /\ \E o \in Outcomes({GroupsOut}) :
       LET call == Invoke(cmd, NoTimeout, o.kind) IN
       /\ calls' = Append(calls, call)
       /\ IF Blocks(call) THEN pc' = "blocked" /\ UNCHANGED <<resp, debug_info>>
          ELSE IF Raised(call) # "none" THEN DebugExcept(Raised(call))
          ELSE /\ debug_info' =
                    IF field = "user_groups"
                    THEN IF o.kind = "ok"
                         THEN [debug_info EXCEPT !.user_groups = SplitWS(Strip(o.stdout))]
                         ELSE debug_info
                    ELSE [debug_info EXCEPT ![field] = (o.kind = "ok")]
               /\ pc' = then
               /\ UNCHANGED resp
  /\ UNCHANGED <<endpoint, socket, ps_result, result, metrics, gpus, processes, lines>>

DbgWhich == DbgProbe("dbg_which", "which docker", "docker_command_available", "dbg_getent")

DbgGetent == DbgProbe("dbg_getent", "getent group docker", "docker_group_exists", "dbg_groups")

DbgGroups == DbgProbe("dbg_groups", "groups", "user_groups", "dbg_ps")

DbgPs ==
  /\ pc = "dbg_ps"
  /\ \E o \in Outcomes({DockerPsTable}) :
       LET call == Invoke("docker ps", QueryTimeout, o.kind) IN
       /\ calls' = Append(calls, call)
       /\ IF Raised(call) # "none"
          THEN DebugExcept(Raised(call)) /\ UNCHANGED result
          ELSE /\ result' = Completed(o)
               /\ debug_info' =
                    IF o.kind = "ok"
                    THEN [docker_ps_success |-> TRUE,
                          docker_ps_output |-> Strip(o.stdout)] @@ debug_info
                    ELSE [docker_ps_success |-> FALSE,
                          docker_ps_error |-> "stderr"] @@ debug_info
               /\ Return(debug_info')
  /\ UNCHANGED <<endpoint, socket, ps_result, metrics, gpus, processes, lines>>

Next ==
  \/ \E e \in Endpoints : Request(e)
  \/ Respond
  \/ SocketChange
  \/ SysPsutil
  \/ SysNvidia
  \/ SvcSocket
  \/ SvcWhich
  \/ SvcPs
  \/ GpuWhich
  \/ GpuQuery
  \/ DetQuery
  \/ DetProcs
  \/ RtQuery
  \/ ProcWhich
  \/ ProcQuery
  \/ ProcLine
  \/ ProcReturn
  \/ DbgSocket
  \/ DbgWhich
  \/ DbgGetent
  \/ DbgGroups
  \/ DbgPs

Spec == Init /\ [][Next]_vars

\* ------------------------------------------------------------------ claims

Failed(call) == call.outcome # "ok"

\* C1: whatever the outcomes of its external calls, no exception leaves a
\* JSON endpoint's handler (no 5xx), and a request that has ended carries a
\* JSON object as its body.
C1_NoExceptionEscapes ==
  /\ pc # "raised"
  /\ pc = "done" => DOMAIN resp # {} /\ endpoint \in Endpoints

C1_Witness ==
  /\ pc = "done"
  /\ endpoint = "/api/gpu/detailed"
  /\ calls[1].outcome = "missing"
  /\ "error" \in DOMAIN resp
  /\ resp.error = "FileNotFoundError"

\* C2: with /var/run/docker.sock absent, /api/services invokes no external
\* process at any point of the request and answers "socket not found" with
\* an empty containers list.
C2_SocketNotFound ==
  (endpoint = "/api/services" /\ ~socket) =>
    /\ calls = <<>>
    /\ pc \in {"svc_socket", "done"}
    /\ pc = "done" => resp.docker = "socket not found" /\ resp.containers = <<>>

C2_Witness ==
  /\ pc = "done"
  /\ endpoint = "/api/services"
  /\ ~socket
  /\ resp.docker = "socket not found"

\* C3: the HostMetrics record carries memory_percent and disk_percent
\* recomputed as used/total*100 from its own used and total fields.
C3_PercentRecomputed ==
  (pc = "done" /\ endpoint = "/api/status" /\ "memory_percent" \in DOMAIN resp) =>
    /\ resp.memory_percent = PercentOf(resp.memory_used, resp.memory_total)
    /\ resp.disk_percent = PercentOf(resp.disk_used, resp.disk_total)

\* C4: a numeric GPU field that is "N/A" never makes the endpoint answer an
\* error: when every numeric field of the query's output is a number or
\* "N/A" (and no total is 0), the response carries the list of records.
C4_SentinelNeverAnError ==
  /\ (pc = "done" /\ endpoint = "/api/gpu/realtime" /\ calls[1].outcome = "ok") =>
       "gpus" \in DOMAIN resp
  /\ (pc = "done" /\ endpoint = "/api/gpu/detailed" /\ Len(calls) = 1
        /\ calls[1].outcome = "ok") =>
       result.stdout \notin Outputs(GpuLines \ {GpuLineZeroTotal})

\* C5: when `which nvidia-smi` exits non-zero, /api/gpu and
\* /api/gpu/processes answer an empty list with a message and no error
\* field, and the nvidia-smi data query is never invoked.
C5_AbsentCliGivesMessage ==
  (endpoint \in {"/api/gpu", "/api/gpu/processes"}
     /\ calls # <<>> /\ calls[1].outcome = "nonzero") =>
    /\ Len(calls) = 1
    /\ pc = "done"
    /\ "message" \in DOMAIN resp
    /\ "error" \notin DOMAIN resp
    /\ endpoint = "/api/gpu" => resp.gpus = <<>>
    /\ endpoint = "/api/gpu/processes" => resp.processes = <<>>

C5_Witness ==
  /\ pc = "done"
  /\ endpoint = "/api/gpu/processes"
  /\ calls = <<Invoke("which nvidia-smi", ProbeTimeout, "nonzero")>>
  /\ resp.processes = <<>>

\* C6: one failing sub-call never keeps the other external calls of the
\* request from running: /api/debug/docker runs its four probes and
\* /api/gpu/detailed its two queries whatever any of them does, and a
\* compute-app line that cannot be parsed or enriched leaves
\* /api/gpu/processes without an error.
C6_SubcallsIndependent ==
  pc = "done" =>
    /\ endpoint = "/api/debug/docker" => Len(calls) = 4
    /\ endpoint = "/api/gpu/detailed" => Len(calls) = 2
    /\ (endpoint = "/api/gpu/processes" /\ Len(calls) >= 2 /\ calls[2].outcome = "ok") =>
         "error" \notin DOMAIN resp

\* C7: every external invocation carries a timeout, so no request waits for
\* ever on a tool that never exits.
C7_EveryCallHasTimeout ==
  /\ \A i \in DOMAIN calls : calls[i].timeout # NoTimeout
  /\ pc # "blocked"

HasThreeFields(line) == Cardinality({i \in DOMAIN line : line[i] = ","}) >= 2

\* name, status and ports read off a line by the places of its first two commas.
ExpectedContainer(line) ==
  LET commas == {i \in DOMAIN line : line[i] = ","}
      c1 == CHOOSE i \in commas : \A j \in commas : i <= j
      c2 == CHOOSE i \in commas \ {c1} : \A j \in commas \ {c1} : i <= j
  IN  [name |-> SubSeq(line, 1, c1 - 1),
       status |-> SubSeq(line, c1 + 1, c2 - 1),
       ports |-> SubSeq(line, c2 + 1, Len(line))]

ExpectedContainers(ls) ==
  LET kept == SelectSeq(ls, HasThreeFields) IN
  [k \in DOMAIN kept |-> ExpectedContainer(kept[k])]

\* C8: when `docker ps` succeeds, containers holds, in output order, one
\* record per line with at least three comma-separated fields: name the
\* first field, status the second, ports everything after the second comma;
\* the other lines are dropped.
C8_ContainersPerLine ==
  (pc = "done" /\ endpoint = "/api/services"
     /\ Len(calls) = 2 /\ calls[2].outcome = "ok") =>
    \E ls \in LinesUpTo(DockerLines) :
      /\ Stdout(ls) = result.stdout
      /\ resp.docker = "running"
      /\ resp.containers = ExpectedContainers(ls)

C8_Witness ==
  /\ pc = "done"
  /\ endpoint = "/api/services"
  /\ result.stdout = Stdout(<<DockerLineTwoFields, DockerLineWeb>>)
  /\ Len(resp.containers) = 1
  /\ resp.containers[1].name = <<"w", "e", "b">>
  /\ resp.containers[1].status = <<"U", "p", " ", "2", " ", "h", "o", "u", "r", "s">>
  /\ resp.containers[1].ports = SubSeq(DockerLineWeb, 16, Len(DockerLineWeb))

HasElevenFields(line) ==
  Cardinality({i \in 1..(Len(line) - 1) : line[i] = "," /\ line[i + 1] = " "}) >= 10

FirstField(line) ==
  LET commas == {i \in DOMAIN line : line[i] = ","} IN
  SubSeq(line, 1, (CHOOSE i \in commas : \A j \in commas : i <= j) - 1)

\* p tenths of a percent is a nearest tenth to used/total*100.
NearestTenth(p, used, total) ==
  LET d == p * total - used * 1000 IN
  2 * d <= total /\ -2 * d <= total

\* GPU lines whose numeric fields are all numbers, or "N/A" where the code
\* looks for it, and lines that are skipped.
SoundGpuLines == {GpuLineT4, GpuLineTie, GpuLineThird, GpuLineShort, <<>>}

\* C9: /api/gpu/detailed produces one GpuDevice per output line with at
\* least 11 fields, in order, each with memory_percent the used/total*100 of
\* its own memory fields rounded to one decimal (16384 and 2048 give 12.5);
\* shorter lines produce nothing and leave the other records alone.
C9_MemoryPercent ==
  /\ (endpoint = "/api/gpu/detailed"
        /\ (pc = "det_procs" \/ (pc = "done" /\ "gpus" \in DOMAIN resp))) =>
       \E ls \in LinesUpTo(GpuLines) :
         /\ Stdout(ls) = result.stdout
         /\ LET long == SelectSeq(ls, HasElevenFields)
                out == IF pc = "det_procs" THEN gpus ELSE resp.gpus
            IN  /\ Len(out) = Len(long)
                /\ \A k \in DOMAIN long :
                     /\ out[k].index = FirstField(long[k])
                     /\ out[k].memory_total > 0
                     /\ NearestTenth(out[k].memory_percent, out[k].memory_used,
                                     out[k].memory_total)
                     /\ long[k] = GpuLineT4 =>
                          /\ out[k].memory_total = 16384
                          /\ out[k].memory_used = 2048
                          /\ out[k].memory_percent = 125
  /\ (pc = "done" /\ endpoint = "/api/gpu/detailed" /\ Len(calls) = 1
        /\ calls[1].outcome = "ok") =>
       result.stdout \notin Outputs(SoundGpuLines)

C9_Witness ==
  /\ pc = "done"
  /\ endpoint = "/api/gpu/detailed"
  /\ "gpus" \in DOMAIN resp
  /\ result.stdout = Stdout(<<GpuLineShort, GpuLineT4>>)
  /\ Len(resp.gpus) = 1
  /\ resp.gpus[1].memory_percent = 125

\* C10: in /api/gpu/detailed and /api/gpu/realtime a missing binary, a
\* timeout or a non-zero exit of the nvidia-smi query gives an empty gpus
\* list with a descriptive string, never the bare error body.
C10_QueryFailureGivesEmptyGpus ==
  (pc = "done" /\ endpoint \in {"/api/gpu/detailed", "/api/gpu/realtime"}
     /\ Failed(calls[1])) =>
    /\ "gpus" \in DOMAIN resp
    /\ resp.gpus = <<>>

HasFiveFields(line) ==
  Cardinality({i \in 1..(Len(line) - 1) : line[i] = "," /\ line[i + 1] = " "}) >= 4

ProcessFields == {"gpu_uuid", "pid", "process_name", "memory_used", "process_type"}

HasPid(line) == Split(line, CommaSpace)[2] # NA

\* The lookup of the step just taken found no process: ps raised, exited
\* non-zero or printed nothing.
PsGone == Failed(calls'[Len(calls')]) \/ Strip(ps_result'.stdout) = <<>>

\* One pass of the loop over a compute-app line with five fields whose memory
\* field is a number or "N/A".
C11_Step ==
  LET line == Head(lines)
      parts == Split(line, CommaSpace)
      asked == Len(calls') = Len(calls) + 1
      rec == processes'[Len(processes')]
      appended ==
        /\ pc' = "proc_loop"
        /\ lines' = Tail(lines)
        /\ Len(processes') = Len(processes) + 1
        /\ SubSeq(processes', 1, Len(processes)) = processes
        /\ ProcessFields \subseteq DOMAIN rec
        /\ rec.gpu_uuid = parts[1] /\ rec.pid = parts[2]
        /\ rec.process_name = parts[3] /\ rec.process_type = parts[5]
        /\ rec.memory_used = IF parts[4] = NA THEN 0 ELSE IntParse(parts[4]).val
  IN  (/\ pc = "proc_loop" /\ lines # <<>> /\ HasFiveFields(line)
       /\ (parts[4] = NA \/ IntParse(parts[4]).ok)) =>
        /\ asked <=> parts[2] # NA
        /\ asked => calls'[Len(calls')].cmd = "ps -p" /\ calls' = Append(calls, calls'[Len(calls')])
        /\ ~asked => calls' = calls
        /\ (~asked \/ PsGone) => appended /\ DOMAIN rec = ProcessFields
        /\ pc' = "proc_loop" => appended

\* What /api/gpu/processes returns when the loop ran to its end.
C11_Returned ==
  (pc = "done" /\ endpoint = "/api/gpu/processes" /\ Len(calls) >= 2
     /\ calls[2].outcome = "ok" /\ "error" \notin DOMAIN resp) =>
    \E ls \in LinesUpTo(ProcLines) :
      /\ Stdout(ls) = result.stdout
      /\ LET long == SelectSeq(ls, HasFiveFields) IN
         /\ Len(resp.processes) = Len(long)
         /\ \A k \in DOMAIN long :
              /\ ProcessFields \subseteq DOMAIN resp.processes[k]
              /\ resp.processes[k].pid = Split(long[k], CommaSpace)[2]
         /\ Len(calls) - 2 = Len(SelectSeq(long, HasPid))

\* C11: in /api/gpu/processes every compute-app line with at least 5 fields
\* adds a record with gpu_uuid, pid, process_name, memory_used and
\* process_type; when the ps lookup exits non-zero, prints nothing, times out
\* or is missing, the record carries no enrichment field and the loop goes on
\* to the next line; ps is invoked exactly for the lines whose pid is not "N/A".
C11_PartialRecordOnPsFailure == []C11_Returned /\ [][C11_Step]_vars

C11_Witness ==
  /\ pc = "done"
  /\ endpoint = "/api/gpu/processes"
  /\ Len(calls) = 4
  /\ calls[3].outcome = "hang"
  /\ calls[4].outcome = "ok"
  /\ Len(resp.processes) = 2
  /\ DOMAIN resp.processes[1] = ProcessFields
  /\ "user" \in DOMAIN resp.processes[2]

DockerPsCalls == {i \in DOMAIN calls : calls[i].cmd = "docker ps"}

\* C12: in /api/services, `docker ps` runs at most once, and only as the
\* second call after the socket was found and `which docker` exited 0; a body
\* that is not the bare error body has status "running" exactly when
\* error_details is empty, lists containers only when running, and status
\* "docker command not found" means `docker ps` was never invoked.
C12_ServicesBodyConsistent ==
  endpoint = "/api/services" =>
    /\ Cardinality(DockerPsCalls) <= 1
    /\ \A i \in DockerPsCalls :
         /\ i = 2
         /\ socket
         /\ calls[1] = Invoke("which docker", NoTimeout, "ok")
    /\ (pc = "done" /\ "docker" \in DOMAIN resp) =>
         /\ resp.docker = "running" <=> resp.error_details = <<>>
         /\ resp.containers # <<>> => resp.docker = "running"
         /\ resp.docker = "running" => DockerPsCalls # {} /\ calls[2].outcome = "ok"
         /\ resp.docker = "docker command not found" =>
              DockerPsCalls = {} /\ calls = <<Invoke("which docker", NoTimeout, "nonzero")>>

C12_Witness ==
  /\ pc = "done"
  /\ endpoint = "/api/services"
  /\ Len(calls) = 2
  /\ calls[2] = Invoke("docker ps", QueryTimeout, "hang")
  /\ resp.docker = "timeout"
  /\ resp.error_details # <<>>
  /\ resp.containers = <<>>

====
